---- MODULE Spec2Model ----
(***************************************************************************)
(* Thermal-frame acquisition pipeline of plot.py (RobustThermalHeatmap):   *)
(* the serial framing/retry loop of read_thermal_data, the tick body       *)
(* update, and the FuncAnimation-driven run of start_visualization.        *)
(*                                                                         *)
(* The serial device is the environment.  It sends a sequence of lines     *)
(* (stream); pos is how many of them were consumed (read or discarded).    *)
(* How many of the following lines have reached the input buffer at any    *)
(* moment is the device's timing: a read finds the next line or times out, *)
(* a buffer discard drops any number of the lines that follow.  A line is  *)
(* the sequence of its whitespace-separated tokens; a read that times out  *)
(* returns the empty line.  Lines arrive whole.                            *)
(***************************************************************************)
EXTENDS Integers, Sequences, FiniteSets, TLC

\* ---------------------------------------------------------------- bounds
NumFrames == 2      \* tick budget num_frames handed to start_visualization
MaxFaults == 1      \* transport / presenter operations that may raise in a run
MaxTimeouts == 1    \* payload reads of one call that may time out before the
                    \* device has sent its last line
MaxDropped == 1     \* the per-call count of discarded lines saturates here
MaxTicks == NumFrames + 1   \* the count of executed ticks saturates here

\* ------------------------------------------------------ program constants
max_attempts == 10  \* plot.py:86
GridSide == 8       \* plot.py:107  reshape(8, 8)
GridCells == 64     \* plot.py:106  len(pixels) == 64
SurfaceSide == 80   \* plot.py:80   np.zeros((80, 80))

\* ------------------------------------------------------------ token level
NaN == -1           \* the value float("nan"): numeric, not finite
NotANumber == -2    \* float(tok) raises ValueError

Digits == <<"1", "2", "3", "4", "5", "6", "7", "8", "9">>

\* float(val), plot.py:105
Float(tok) ==
    IF \E i \in 1..Len(Digits) : Digits[i] = tok
    THEN CHOOSE i \in 1..Len(Digits) : Digits[i] = tok
    ELSE IF tok = "nan" THEN NaN ELSE NotANumber

IsFinite(v) == v >= 0

\* bytes.decode('utf-8') raises UnicodeDecodeError (a ValueError) on such a line
Decodable(line) == \A i \in 1..Len(line) : line[i] # "\\xff"

\* 'Thermal data:' in line, plot.py:95 (substring match on the decoded line)
IsMarker(line) ==
    \E i \in 1..(Len(line) - 1) : line[i] = "Thermal" /\ line[i + 1] = "data:"

RECURSIVE Flatten(_)
\* [val for line in data_lines for val in line], plot.py:105
Flatten(lines) ==
    IF lines = <<>> THEN <<>> ELSE Head(lines) \o Flatten(Tail(lines))

\* a reshape that fills the grid column by column
Reshape_ColumnMajor(pixels) ==
    [r \in 1..GridSide |-> [c \in 1..GridSide |-> pixels[GridSide * (c - 1) + r]]]

\* np.array(pixels).reshape(8, 8), plot.py:107 (row-major)
Reshape(pixels) ==
    [r \in 1..GridSide |-> [c \in 1..GridSide |-> pixels[GridSide * (r - 1) + c]]]

\* np.zeros((8, 8)), plot.py:28 and plot.py:115
Zeros8 == [r \in 1..GridSide |-> [c \in 1..GridSide |-> 0]]

\* a fallback surface built with the raw grid's shape
Zeros80_RawShape == [rows |-> GridSide, cols |-> GridSide, kind |-> "zeros", of |-> Zeros8]

\* np.zeros((80, 80)), plot.py:43 and plot.py:80
Zeros80 == [rows |-> SurfaceSide, cols |-> SurfaceSide, kind |-> "zeros", of |-> Zeros8]

\* the grid griddata(..., method='cubic') returns for a frame, plot.py:71-77
Cubic(f) == [rows |-> SurfaceSide, cols |-> SurfaceSide, kind |-> "cubic", of |-> f]

\* --------------------------------------------------- streams the device sends
RECURSIVE Times(_, _)
Times(s, n) == IF n = 0 THEN <<>> ELSE s \o Times(s, n - 1)

MarkerLine == <<"Thermal", "data:">>
Row8 == <<"1", "2", "3", "4", "5", "6", "7", "8">>
Row7 == <<"9", "8", "7", "6", "5", "4", "3">>
Row9 == <<"2", "4", "6", "8", "1", "3", "5", "7", "9">>
RowNaN == <<"nan", "2", "3", "4", "5", "6", "7", "8">>
RowText == <<"1", "2", "err", "4", "5", "6", "7", "8">>
Garbled == <<"\\xff">>
Noise == <<"boot", "ok">>

FrameA == <<MarkerLine>> \o Times(<<Row8>>, 8)
FrameB == <<MarkerLine>> \o Times(<<Row7, Row9>>, 4)
FrameNaN == <<MarkerLine, RowNaN>> \o Times(<<Row8>>, 7)
FrameText == <<MarkerLine, RowText>> \o Times(<<Row8>>, 7)
FrameShort == <<MarkerLine>> \o Times(<<Row7>>, 8)
Partial7 == <<MarkerLine>> \o Times(<<Row8>>, 7)

ScenarioA == <<Noise>> \o FrameA
ScenarioB == Partial7 \o FrameB \o FrameA
ScenarioC == <<Noise, Row8>>
TwoFrames == FrameB \o FrameA
Exhausting == FrameShort \o Times(<<Garbled>>, max_attempts - 1) \o FrameA
NaNFrame == FrameNaN
BlankFrame == <<MarkerLine, <<>>>> \o Times(<<Row8>>, 6) \o <<Row8 \o Row8>>
TextFrame == FrameText \o FrameB

Streams ==
    {ScenarioA, ScenarioB, ScenarioC, TwoFrames, Exhausting, NaNFrame, TextFrame,
     BlankFrame}

VARIABLES
    stream, pos,                 \* transport: lines sent, lines consumed
    faults,                      \* operations that raised so far
    pc,                          \* control point
    attempt,                     \* iterations of the for loop begun in this call
    data_lines,                  \* plot.py:99
    current_frame,               \* plot.py:123
    returned,                    \* how the last call ended: none/parsed/fallback
    markerPos,                   \* stream index of the marker this attempt found
    dropped, timeouts,           \* per call: lines found buffered at the discards
                                 \* (saturating), reads timed out
    flushes,                     \* per call: buffer discards carried out
    interpolated_frame,          \* plot.py:129
    heatmap_original,            \* the Presenter's raw surface
    heatmap_interpolated,        \* the Presenter's interpolated surface
    frame,                       \* frames of the current pass already handed out
    ticks,                       \* update() calls made in this run
    lastTick, hadError, exc,     \* outcome of the last tick, of the run
    before,                      \* both surfaces as the current tick found them
    run, first                   \* replay harness: run number, outcome of run 1

transport == <<stream, pos>>
locals == <<attempt, data_lines, current_frame, returned, interpolated_frame>>
percall == <<markerPos, dropped, timeouts, flushes>>
surfaces == <<heatmap_original, heatmap_interpolated>>
sched == <<frame, ticks>>
outcome == <<lastTick, hadError, exc, before>>
replay == <<run, first>>
vars == <<transport, faults, pc, locals, percall, surfaces, sched, outcome, replay>>

NoOutcome == [kind |-> "none", grid |-> Zeros8]

\* __init__, plot.py:8-53: port open and flushed, both surfaces all-zero
Init ==
    /\ stream \in Streams
    /\ pos = 0
    /\ faults = 0
    /\ pc = "idle"
    /\ attempt = 0
    /\ data_lines = <<>>
    /\ current_frame = Zeros8
    /\ returned = "none"
    /\ markerPos = 0
    /\ dropped = 0
    /\ timeouts = 0
    /\ flushes = 0
    /\ interpolated_frame = Zeros80
    /\ heatmap_original = Zeros8
    /\ heatmap_interpolated = Zeros80
    /\ frame = 0
    /\ ticks = 0
    /\ lastTick = "none"
    /\ hadError = FALSE
    /\ exc = "none"
    /\ before = <<Zeros8, Zeros80>>
    /\ run = 1
    /\ first = NoOutcome

\* ----------------------------------------------------------- environment
Sat(n, cap) == IF n > cap THEN cap ELSE n

\* exceptions a transport operation may raise: serial.SerialException, or an
\* error of another class (OSError / termios.error raised by the driver)
FaultKinds == IF faults < MaxFaults THEN {"SerialException", "OtherError"} ELSE {}

\* the lines sitting in the input buffer when it is discarded: any number of
\* the lines that follow
Buffered == 0..(Len(stream) - pos)

\* ------------------------------------------------------- exception handling
\* update without its try/except: the exception leaves update and ends the run
UpdateExcept_Propagates(src) ==
    /\ pc' = "closed"
    /\ lastTick' = "error"
    /\ hadError' = TRUE
    /\ exc' = src
    /\ UNCHANGED before

\* except Exception in update, plot.py:134-136: the tick ends with no result
UpdateExcept(src) ==
    /\ pc' = "idle"
    /\ lastTick' = "error"
    /\ hadError' = TRUE
    /\ exc' = src
    /\ UNCHANGED before

\* except (ValueError, serial.SerialException), plot.py:109
Caught(e) == e \in {"ValueError", "SerialException"}

\* an exception raised inside the try of read_thermal_data, plot.py:88-111:
\* caught ones continue the for loop, any other propagates into update
ReaderExcept(e) ==
    IF Caught(e)
    THEN pc' = "for" /\ UNCHANGED outcome
    ELSE UpdateExcept("acquire")

\* -------------------------------------------------------- read_thermal_data
\* return of read_thermal_data into current_frame, plot.py:107/115 and 123
Return(grid, how) ==
    /\ current_frame' = grid
    /\ returned' = how
    /\ pc' = "set_original"

\* a discard that leaves the buffered lines in place
Discard_Keeps(k) == pos

\* self.ser.reset_input_buffer(), plot.py:90: the position in the stream once
\* the k buffered lines are gone
Discard(k) == pos + k

\* for attempt in range(max_attempts): reset_input_buffer(), plot.py:87-90
ResetInputBuffer ==
    /\ pc = "for"
    /\ attempt < max_attempts
    /\ attempt' = attempt + 1
    /\ markerPos' = 0
    /\ \/ \E k \in Buffered :
             /\ pos' = Discard(k)
             /\ dropped' = Sat(dropped + k, MaxDropped)
             /\ flushes' = flushes + 1
             /\ pc' = "search"
             /\ UNCHANGED <<faults, outcome>>
       \/ \E o \in FaultKinds :
             /\ faults' = faults + 1
             /\ ReaderExcept(o)
             /\ UNCHANGED <<pos, dropped, flushes>>
    /\ UNCHANGED <<stream, data_lines, current_frame, returned,
                   interpolated_frame, timeouts, surfaces, sched, replay>>

\* the for loop is exhausted: return np.zeros((8, 8)), plot.py:113-115
ReturnFallback ==
    /\ pc = "for"
    /\ attempt = max_attempts
    /\ Return(Zeros8, "fallback")
    /\ UNCHANGED <<transport, faults, attempt, data_lines, interpolated_frame,
                   percall, surfaces, sched, outcome, replay>>

\* one pass of the while True loop, plot.py:93-96
SearchMarker ==
    /\ pc = "search"
    /\ \/ /\ pos < Len(stream)
          /\ pos' = pos + 1
          /\ LET line == stream[pos + 1] IN
                IF ~Decodable(line)
                THEN ReaderExcept("ValueError") /\ UNCHANGED <<data_lines, markerPos>>
                ELSE IF IsMarker(line)
                THEN /\ pc' = "rows"
                     /\ data_lines' = <<>>
                     /\ markerPos' = pos + 1
                     /\ UNCHANGED outcome
                ELSE UNCHANGED <<pc, data_lines, markerPos, outcome>>
          /\ UNCHANGED <<faults, timeouts>>
       \/ /\ timeouts' = Sat(timeouts + 1, MaxTimeouts)
          /\ UNCHANGED <<pos, pc, data_lines, markerPos, outcome, faults>>
       \/ \E o \in FaultKinds :
             /\ faults' = faults + 1
             /\ ReaderExcept(o)
             /\ UNCHANGED <<pos, data_lines, markerPos, timeouts>>
    /\ UNCHANGED <<stream, attempt, current_frame, returned, interpolated_frame,
                   dropped, flushes, surfaces, sched, replay>>

\* the control point after a row was appended: the loop of plot.py:100 ends
\* with the eighth
AfterRow(lines) == IF Len(lines) = GridSide THEN "parse" ELSE "rows"

\* one pass of for _ in range(8), plot.py:100-102
ReadRow ==
    /\ pc = "rows"
    /\ \/ /\ pos < Len(stream)
          /\ pos' = pos + 1
          /\ LET line == stream[pos + 1] IN
                IF ~Decodable(line)
                THEN ReaderExcept("ValueError") /\ UNCHANGED data_lines
                ELSE /\ data_lines' = Append(data_lines, line)
                     /\ pc' = AfterRow(data_lines')
                     /\ UNCHANGED outcome
          /\ UNCHANGED <<faults, timeouts>>
       \/ /\ timeouts < MaxTimeouts \/ pos = Len(stream)
          /\ timeouts' = Sat(timeouts + 1, MaxTimeouts)
          /\ data_lines' = Append(data_lines, <<>>)
          /\ pc' = AfterRow(data_lines')
          /\ UNCHANGED <<pos, outcome, faults>>
       \/ \E o \in FaultKinds :
             /\ faults' = faults + 1
             /\ ReaderExcept(o)
             /\ UNCHANGED <<pos, data_lines, timeouts>>
    /\ UNCHANGED <<stream, attempt, current_frame, returned, interpolated_frame,
                   markerPos, dropped, flushes, surfaces, sched, replay>>

\* pixels = [float(val) ...], plot.py:105
Pixels(lines) == LET toks == Flatten(lines) IN [i \in 1..Len(toks) |-> Float(toks[i])]

\* len(pixels) == 64, plot.py:106
Complete(pixels) == Len(pixels) = GridCells

\* a wrong token total answered with the fallback at once, without a retry
Mismatch_ReturnsZeros ==
    /\ current_frame' = Zeros8
    /\ returned' = "fallback"
    /\ pc' = "set_original"
    /\ UNCHANGED outcome

\* the if of plot.py:106 is false: control falls off the end of the try and
\* the for loop goes on
Mismatch ==
    /\ pc' = "for"
    /\ UNCHANGED <<current_frame, returned, outcome>>

\* plot.py:104-107
Parse ==
    /\ pc = "parse"
    /\ LET pixels == Pixels(data_lines) IN
          IF \E i \in 1..Len(pixels) : pixels[i] = NotANumber
          THEN ReaderExcept("ValueError") /\ UNCHANGED <<current_frame, returned>>
          ELSE IF Complete(pixels)
          THEN Return(Reshape(pixels), "parsed") /\ UNCHANGED outcome
          ELSE Mismatch
    /\ UNCHANGED <<transport, faults, attempt, data_lines, interpolated_frame,
                   percall, surfaces, sched, replay>>

\* ------------------------------------------------------------------ update
\* an exception a Presenter surface update may raise (set_array rejects its
\* argument): any Exception
PresenterFaults == IF faults < MaxFaults THEN {"PresenterError"} ELSE {}

\* self.heatmap_original.set_array(current_frame), plot.py:126
SetOriginal ==
    /\ pc = "set_original"
    /\ \/ /\ heatmap_original' = current_frame
          /\ pc' = "interpolate"
          /\ UNCHANGED <<faults, outcome>>
       \/ \E o \in PresenterFaults :
             /\ faults' = faults + 1
             /\ UpdateExcept("present")
             /\ UNCHANGED heatmap_original
    /\ UNCHANGED <<transport, locals, percall, heatmap_interpolated, sched, replay>>

\* interpolate_thermal_data, plot.py:55-80: griddata's result, or the all-zero
\* surface when griddata raises
Interpolate ==
    /\ pc = "interpolate"
    /\ \E ok \in BOOLEAN :
          interpolated_frame' = IF ok THEN Cubic(current_frame) ELSE Zeros80
    /\ pc' = "set_interpolated"
    /\ UNCHANGED <<transport, faults, attempt, data_lines, current_frame, returned,
                   percall, surfaces, sched, outcome, replay>>

\* self.heatmap_interpolated.set_array(interpolated_frame) and the return of
\* both artists, plot.py:130-132
SetInterpolated ==
    /\ pc = "set_interpolated"
    /\ \/ /\ heatmap_interpolated' = interpolated_frame
          /\ pc' = "idle"
          /\ lastTick' = "ok"
          /\ exc' = "none"
          /\ UNCHANGED <<faults, hadError, before>>
       \/ \E o \in PresenterFaults :
             /\ faults' = faults + 1
             /\ UpdateExcept("present")
             /\ UNCHANGED heatmap_interpolated
    /\ UNCHANGED <<transport, locals, percall, heatmap_original, sched, replay>>

\* ----------------------------------------------------- start_visualization
\* FuncAnimation(fig, update, frames=num_frames, interval=1000, blit=True),
\* plot.py:144-150: each timer event hands the next frame number to update
StartTick ==
    /\ pc = "idle"
    /\ frame < NumFrames
    /\ frame' = frame + 1
    /\ ticks' = Sat(ticks + 1, MaxTicks)
    /\ pc' = "for"
    /\ attempt' = 0
    /\ data_lines' = <<>>
    /\ current_frame' = Zeros8
    /\ returned' = "none"
    /\ interpolated_frame' = Zeros80
    /\ markerPos' = 0
    /\ dropped' = 0
    /\ timeouts' = 0
    /\ flushes' = 0
    /\ before' = <<heatmap_original, heatmap_interpolated>>
    /\ lastTick' = "running"
    /\ UNCHANGED <<transport, faults, surfaces, hadError, exc, replay>>

\* the frame sequence is exhausted and repeat is left at its default (True):
\* the animation starts the sequence over, plot.py:144-150
Repeat ==
    /\ pc = "idle"
    /\ frame = NumFrames
    /\ frame' = 0
    /\ UNCHANGED <<transport, faults, pc, locals, percall, surfaces, ticks,
                   outcome, replay>>

\* the user closes the figure: plt.show() returns, plot.py:153
CloseWindow ==
    /\ pc = "idle"
    /\ pc' = "closed"
    /\ UNCHANGED <<transport, faults, locals, percall, surfaces, sched, outcome,
                   replay>>

Next ==
    \/ ResetInputBuffer
    \/ ReturnFallback
    \/ SearchMarker
    \/ ReadRow
    \/ Parse
    \/ SetOriginal
    \/ Interpolate
    \/ SetInterpolated
    \/ StartTick
    \/ Repeat
    \/ CloseWindow

Spec == Init /\ [][Next]_vars

\* ------------------------------------------------------------ second run
\* The first call of a run has returned; the same stream is fed again, from
\* its first line, to a second call whose result is compared with the first.
Replay ==
    /\ pc = "set_original"
    /\ run = 1
    /\ ticks = 1
    /\ run' = 2
    /\ first' = [kind |-> returned, grid |-> current_frame]
    /\ pos' = 0
    /\ pc' = "for"
    /\ attempt' = 0
    /\ data_lines' = <<>>
    /\ current_frame' = Zeros8
    /\ returned' = "none"
    /\ markerPos' = 0
    /\ dropped' = 0
    /\ timeouts' = 0
    /\ flushes' = 0
    /\ UNCHANGED <<stream, faults, interpolated_frame, surfaces, sched, outcome>>

NextReplay == Next \/ Replay

SpecReplay == Init /\ [][NextReplay]_vars


\* ================================================================ claims
\* the marker at stream index m is followed by 8 decodable lines of numeric
\* tokens that total 64
WellFormedAt(m) ==
    /\ m \in 1..(Len(stream) - GridSide)
    /\ IsMarker(stream[m])
    /\ \A i \in 1..GridSide :
          /\ Decodable(stream[m + i])
          /\ \A j \in 1..Len(stream[m + i]) : Float(stream[m + i][j]) # NotANumber
    /\ Len(Flatten(SubSeq(stream, m + 1, m + GridSide))) = GridCells

\* the (8*(r-1) + c)-th token of the 8 lines after the marker at m, as a number
TokenAt(m, r, c) == Float(Flatten(SubSeq(stream, m + 1, m + GridSide))[GridSide * (r - 1) + c])

FrameAt(m) == [r \in 1..GridSide |-> [c \in 1..GridSide |-> TokenAt(m, r, c)]]

\* C1 as stated: whenever the stream holds a well-formed frame, whatever
\* precedes it, the first call returns a parsed grid that is the row-major
\* grid of a well-formed frame of the stream (every line was delivered: none
\* discarded from the buffer, no read timed out or raised).
C1_AnyPrecedingLines ==
    (pc = "set_original" /\ ticks = 1 /\ \E m \in 1..Len(stream) : WellFormedAt(m)
        /\ dropped = 0 /\ timeouts = 0 /\ faults = 0)
        => /\ returned = "parsed"
           /\ \E m \in 1..Len(stream) : WellFormedAt(m) /\ current_frame = FrameAt(m)

\* C1 amended: when the marker line an attempt's search stopped at is followed
\* by 8 lines of numeric tokens totalling 64 and the attempt read exactly those
\* 8 lines, the call returns the grid whose cell (r, c) is the (8r + c)-th token.
C1_FrameAfterFoundMarker ==
    (pc = "set_original" /\ markerPos > 0 /\ pos = markerPos + GridSide
        /\ WellFormedAt(markerPos))
        => /\ returned = "parsed"
           /\ \A r, c \in 1..GridSide : current_frame[r][c] = TokenAt(markerPos, r, c)

\* a frame whose lines do not coincide with the grid's rows, found behind other
\* lines, was returned in row-major order
C1_Witness ==
    /\ pc = "set_original"
    /\ returned = "parsed"
    /\ markerPos > 1
    /\ pos = markerPos + GridSide
    /\ WellFormedAt(markerPos)
    /\ Len(stream[markerPos + 1]) = 7
    /\ current_frame[1][GridSide] = Float(stream[markerPos + 2][1])
    /\ current_frame[2][1] = Float(stream[markerPos + 2][2])

\* C2 as stated: a marker search whose read times out counts as a failed
\* attempt, i.e. the timed-out read ends that search.
C2_TimeoutEndsSearch ==
    [][(pc = "search" /\ timeouts' # timeouts) => pc' # "search"]_vars

\* C3: a token total other than 64 returns no frame and hands control back to
\* the retry loop; once max_attempts attempts were made the loop makes no
\* further attempt and returns the all-zero grid; the attempt count never
\* exceeds max_attempts.
C3_Step ==
    /\ (pc = "parse"
          /\ (\A i \in 1..Len(data_lines) : \A j \in 1..Len(data_lines[i]) :
                 Float(data_lines[i][j]) # NotANumber)
          /\ Len(Flatten(data_lines)) # GridCells)
       => (pc' = "for" /\ returned' = "none" /\ current_frame' = current_frame)
    /\ (pc = "for" /\ attempt = max_attempts)
       => (pc' = "set_original" /\ returned' = "fallback" /\ current_frame' = Zeros8
             /\ attempt' = attempt /\ pos' = pos)
    /\ (pc = "for" /\ attempt < max_attempts /\ pc' = "search") => attempt' = attempt + 1
    /\ attempt' <= max_attempts

C3_BoundedRetry == [][C3_Step]_vars

\* the first attempt read a full payload of 56 tokens, the search went on, and
\* after max_attempts failed attempts in a row the call fell back
C3_Witness ==
    /\ pc = "set_original"
    /\ returned = "fallback"
    /\ current_frame = Zeros8
    /\ attempt = max_attempts
    /\ stream = Exhausting
    /\ pos = Len(FrameShort) + max_attempts - 1
    /\ faults = 0 /\ timeouts = 0 /\ dropped = 0

\* C4 as stated: on marker, 7 data lines, second marker, full payload, the call
\* returns the frame that follows the second marker (nothing was discarded from
\* the buffer, no read timed out or raised).
C4_ResyncOnSecondMarker ==
    (stream = ScenarioB /\ pc = "set_original" /\ ticks = 1
        /\ dropped = 0 /\ timeouts = 0 /\ faults = 0)
        => (returned = "parsed" /\ current_frame = FrameAt(Len(Partial7) + 1))

\* C5 as stated: a tick that raised left both Presenter surfaces as it found them.
C5_FailedTickLeavesSurfaces ==
    (pc = "idle" /\ lastTick = "error")
        => <<heatmap_original, heatmap_interpolated>> = before

\* C6: the step in which a tick raises returns control to the scheduler, and
\* the scheduler can then start another tick.
C6_RunContinues ==
    /\ [][(lastTick = "running" /\ lastTick' = "error") => pc' = "idle"]_vars
    /\ []((pc = "idle" /\ lastTick = "error") => ENABLED (StartTick \/ Repeat))

\* after a tick that raised, a later tick acquired, interpolated and rendered
C6_Witness ==
    /\ hadError
    /\ pc = "idle"
    /\ lastTick = "ok"
    /\ returned = "parsed"
    /\ heatmap_original = current_frame
    /\ heatmap_interpolated = Cubic(current_frame)

\* C7 as stated: no error leaves read_thermal_data.
C7_NothingEscapes == exc # "acquire"

\* C8 as stated: a run with tick budget NumFrames executes at most NumFrames ticks.
C8_TickBudget == ticks <= NumFrames

\* C9 as stated: a second call fed the identical lines, with no operation
\* raising in either run, returns what the first call returned.
C9_SameStreamSameFrame ==
    (run = 2 /\ pc = "set_original" /\ faults = 0)
        => first = [kind |-> returned, grid |-> current_frame]

\* C10 as stated: every returned frame is 8x8 with every value finite.
C10_AllFinite ==
    pc = "set_original"
        => /\ DOMAIN current_frame = 1..GridSide
           /\ \A r \in 1..GridSide :
                 /\ DOMAIN current_frame[r] = 1..GridSide
                 /\ \A c \in 1..GridSide : IsFinite(current_frame[r][c])

\* C11: interpolate_thermal_data hands update a surface of exactly 80x80,
\* griddata's or (when griddata raises) the all-zero one, without an error
\* reaching update; a tick that then completes has rendered the raw frame
\* together with that all-zero surface.
C11_Step ==
    /\ pc = "interpolate"
       => /\ pc' = "set_interpolated"
          /\ interpolated_frame'.rows = SurfaceSide
          /\ interpolated_frame'.cols = SurfaceSide
          /\ interpolated_frame'.kind \in {"cubic", "zeros"}
          /\ interpolated_frame'.kind = "cubic" => interpolated_frame'.of = current_frame
          /\ interpolated_frame'.kind = "zeros" => interpolated_frame'.of = Zeros8
          /\ lastTick' = lastTick /\ exc' = exc /\ hadError' = hadError
    /\ (pc = "set_interpolated" /\ interpolated_frame.kind = "zeros" /\ lastTick' = "ok")
       => /\ heatmap_original' = current_frame
          /\ heatmap_interpolated'.kind = "zeros"
          /\ heatmap_interpolated'.rows = SurfaceSide
          /\ heatmap_interpolated'.cols = SurfaceSide

C11_AlwaysSurface == [][C11_Step]_vars

\* griddata raised on a parsed frame and the tick rendered the frame with the
\* all-zero surface
C11_Witness ==
    /\ pc = "idle"
    /\ lastTick = "ok"
    /\ ~hadError
    /\ returned = "parsed"
    /\ heatmap_original = current_frame
    /\ heatmap_original # Zeros8
    /\ interpolated_frame.kind = "zeros"
    /\ heatmap_interpolated = Zeros80

\* C12 as stated: once a payload line with a non-numeric token was read, no
\* further payload line of that attempt is read.
C12_AbortAtBadToken ==
    pc \in {"rows", "parse"}
        => \A i \in 1..(Len(data_lines) - 1) : \A j \in 1..Len(data_lines[i]) :
              Float(data_lines[i][j]) # NotANumber

\* C13 as stated: a payload returned as a frame has at least one token on each
\* of its 8 lines.
C13_NoEmptyLine ==
    (pc = "set_original" /\ returned = "parsed")
        => /\ Len(data_lines) = GridSide
           /\ \A i \in 1..GridSide : Len(data_lines[i]) >= 1

\* C14: within a call every attempt begins with one buffer discard, the first
\* attempt included, so the discards carried out equal the attempts begun (less
\* those whose discard raised); a discard happens nowhere else, in particular
\* not after the last failed attempt; the discard moves the read position past
\* every line buffered when the attempt began, and a read takes only the next
\* line after that position, so no such line is parsed by the attempt.
C14_Inv ==
    /\ flushes <= attempt
    /\ attempt <= flushes + faults
    /\ flushes <= max_attempts
    /\ pc \in {"search", "rows", "parse"} => flushes >= 1
    /\ markerPos > 0 => markerPos <= pos

C14_Step ==
    /\ (flushes' > flushes \/ pos' > pos + 1 \/ dropped' > dropped)
       => /\ pc = "for"
          /\ attempt < max_attempts
          /\ attempt' = attempt + 1
          /\ flushes' = flushes + 1
          /\ pc' = "search"
          /\ dropped' = Sat(dropped + (pos' - pos), MaxDropped)
    /\ (pc \in {"search", "rows"} /\ pos' # pos) => pos' = pos + 1
    /\ (pc = "search" /\ pc' = "rows") => markerPos' = pos'

C14_DiscardPerAttempt == [](C14_Inv) /\ [][C14_Step]_vars

\* a call of at least two attempts, one discard each and none raising, parsed a
\* frame that followed lines one of its attempts found buffered and dropped
C14_Witness ==
    /\ pc = "set_original"
    /\ returned = "parsed"
    /\ faults = 0
    /\ attempt >= 2
    /\ flushes = attempt
    /\ dropped > 0
    /\ markerPos > 1
    /\ pos = markerPos + GridSide

====
